---- MODULE Spec2Model ----
(***************************************************************************)
(* Model of the notes application: the /generate-notes request handler of  *)
(* the Express server (language and subject detection, generation,        *)
(* correction pass, save) with the external model as a nondeterministic   *)
(* environment.                                                           *)
(*                                                                         *)
(* Texts are TLA+ strings; TLC evaluates Len, SubSeq and \o on them.       *)
(* The four typographic quotes the server strips cannot be written in a   *)
(* TLA+ string, so they are written with four ASCII characters that occur *)
(* nowhere else in the modelled inputs:                                   *)
(*     U+201C -> "{"    U+201D -> "}"    U+2018 -> "["    U+2019 -> "]"    *)
(***************************************************************************)
EXTENDS Integers, Sequences, FiniteSets, TLC

(***************************************************************************)
(* JavaScript string primitives used by the server.                        *)
(***************************************************************************)

\* String.prototype.toLowerCase on one character.
LowerChar(c) ==
  CASE c = "A" -> "a" [] c = "B" -> "b" [] c = "C" -> "c" [] c = "D" -> "d"
    [] c = "E" -> "e" [] c = "F" -> "f" [] c = "G" -> "g" [] c = "H" -> "h"
    [] c = "I" -> "i" [] c = "J" -> "j" [] c = "K" -> "k" [] c = "L" -> "l"
    [] c = "M" -> "m" [] c = "N" -> "n" [] c = "O" -> "o" [] c = "P" -> "p"
    [] c = "Q" -> "q" [] c = "R" -> "r" [] c = "S" -> "s" [] c = "T" -> "t"
    [] c = "U" -> "u" [] c = "V" -> "v" [] c = "W" -> "w" [] c = "X" -> "x"
    [] c = "Y" -> "y" [] c = "Z" -> "z" [] OTHER -> c

\* String.prototype.toLowerCase.
RECURSIVE toLowerCase(_)
toLowerCase(s) ==
  IF s = "" THEN ""
  ELSE LowerChar(SubSeq(s, 1, 1)) \o toLowerCase(SubSeq(s, 2, Len(s)))

\* String.prototype.includes: k occurs in s as a contiguous substring.
includes(s, k) ==
  \E i \in 0..(Len(s) - Len(k)) : SubSeq(s, i + 1, i + Len(k)) = k

\* String.prototype.substring(0, n).
substring0(s, n) == IF Len(s) <= n THEN s ELSE SubSeq(s, 1, n)

\* The white space String.prototype.trim removes (the part of it that the
\* modelled inputs use).
WhiteSpace == {" ", "\n", "\t", "\r"}

RECURSIVE trimStart(_)
trimStart(s) ==
  IF s # "" /\ SubSeq(s, 1, 1) \in WhiteSpace
  THEN trimStart(SubSeq(s, 2, Len(s))) ELSE s

RECURSIVE trimEnd(_)
trimEnd(s) ==
  IF s # "" /\ SubSeq(s, Len(s), Len(s)) \in WhiteSpace
  THEN trimEnd(SubSeq(s, 1, Len(s) - 1)) ELSE s

\* String.prototype.trim.
trim(s) == trimEnd(trimStart(s))

\* s.split(sep)[0] for a one-character separator: the part of s before the
\* first sep, all of s when there is none.
RECURSIVE splitFirst(_, _)
splitFirst(s, sep) ==
  IF s = "" \/ SubSeq(s, 1, 1) = sep THEN ""
  ELSE SubSeq(s, 1, 1) \o splitFirst(SubSeq(s, 2, Len(s)), sep)

\* s.replace(/[...]/g, ''): s without the characters of the class.
RECURSIVE removeChars(_, _)
removeChars(s, class) ==
  IF s = "" THEN ""
  ELSE (IF SubSeq(s, 1, 1) \in class THEN "" ELSE SubSeq(s, 1, 1))
         \o removeChars(SubSeq(s, 2, Len(s)), class)

(***************************************************************************)
(* The tables of detectSubject.                                            *)
(***************************************************************************)

\* allowedSubjects, in declaration order.
allowedSubjects ==
  << "Mathematics", "Physics", "Chemistry", "Biology", "Programming",
     "Computer Science", "History", "Geography", "Literature", "Language",
     "Art", "Music", "Sports", "Entertainment", "General" >>

\* Object.entries(synonyms), in insertion order.
synonyms ==
  << << "computer science", "Computer Science" >>,
     << "cs", "Computer Science" >>,
     << "coding", "Programming" >>,
     << "programming", "Programming" >>,
     << "program", "Programming" >>,
     << "math", "Mathematics" >>,
     << "mathematics", "Mathematics" >>,
     << "physics", "Physics" >>,
     << "chemistry", "Chemistry" >>,
     << "biology", "Biology" >>,
     << "history", "History" >>,
     << "geography", "Geography" >>,
     << "literature", "Literature" >>,
     << "language", "Language" >>,
     << "linguistics", "Language" >>,
     << "art", "Art" >>,
     << "music", "Music" >>,
     << "sports", "Sports" >>,
     << "entertainment", "Entertainment" >>,
     << "general", "General" >> >>

\* Object.entries(keywordMap), in insertion order: <<subject, keywords>>.
keywordMap ==
  << << "Mathematics",
        << "integral", "derivative", "algebra", "calculus", "theorem", "matrix", "probability",
           "geometry", "trigonometry", "statistics", "differential equations", "vector",
           "tensor", "limit", "set theory", "number theory", "topology", "combinatorics",
           "prime", "logarithm", "exponential", "polynomial", "inequality", "function",
           "graph theory", "optimization", "linear algebra", "stochastic", "random variable",
           "bayesian", "euclidean", "non-euclidean", "metric", "proof", "axiom", "lemma",
           "corollary", "sequence", "series", "p-adic", "symmetry", "group theory", "ring",
           "field", "manifold", "integrable", "partial derivative", "gradient", "divergence",
           "curl" >> >>,
     << "Physics",
        << "velocity", "force", "quantum", "relativity", "particle", "energy", "momentum",
           "thermodynamics", "optics", "mass", "acceleration", "friction", "gravity",
           "electromagnetism", "wave", "frequency", "amplitude", "spin", "string theory",
           "boson", "fermion", "neutrino", "photon", "entropy", "enthalpy", "pressure",
           "fluid dynamics", "nuclear", "atomic", "collision", "radiation", "magnetism",
           "capacitance", "resistance", "superconductivity", "black hole", "cosmology",
           "astrophysics", "inertia", "scalar", "vector", "field", "higgs", "dark matter",
           "dark energy", "interference", "diffraction", "relativistic" >> >>,
     << "Chemistry",
        << "molecule", "reaction", "chemical", "atom", "bond", "ph", "acid", "oxidation",
           "synthesis", "catalyst", "organic", "inorganic", "covalent", "ionic", "solution",
           "solvent", "solute", "concentration", "stoichiometry", "thermochemistry", "enthalpy",
           "electrons", "orbitals", "periodic table", "isotope", "polymer", "crystal",
           "precipitate", "titration", "spectroscopy", "chromatography", "equilibrium", "buffer",
           "alkaline", "halogen", "transition metal", "electrochemistry", "redox", "molarity",
           "kinetics", "enthalpy", "hydrocarbon", "ester", "amine" >> >>,
     << "Biology",
        << "cell", "organism", "evolution", "dna", "protein", "genome", "photosynthesis",
           "mitosis", "meiosis", "enzyme", "chromosome", "ribosome", "mutation", "gene",
           "genetics", "epigenetics", "ecosystem", "bacteria", "virus", "fungi", "microbe",
           "adaptation", "natural selection", "anatomy", "physiology", "immune system",
           "respiration", "metabolism", "hormone", "organ", "species", "taxonomy",
           "reproduction", "biosphere", "ecology", "biome", "cloning", "biotechnology", "neuron",
           "synapse", "membrane", "cytoplasm", "mitochondria", "chloroplast" >> >>,
     << "Programming",
        << "function", "variable", "loop", "algorithm", "code", "compile", "runtime", "bug",
           "debug", "class", "object", "inheritance", "polymorphism", "interface", "recursion",
           "pointer", "array", "list", "dictionary", "hashmap", "framework", "library", "module",
           "package", "thread", "concurrency", "parallel", "asynchronous", "promise",
           "exception", "error", "syntax", "interpreter", "compiler", "optimization", "API",
           "REST", "JSON", "XML", "version control", "git", "regex", "IDE", "container",
           "virtual machine" >> >>,
     << "Computer Science",
        << "computer", "algorithm", "data structure", "database", "machine learning",
           "computing", "cpu", "gpu", "compiler theory", "operating system", "network",
           "protocol", "distributed system", "cloud", "virtualization", "encryption",
           "cryptography", "complexity", "big o", "neural network", "ai", "deep learning", "nlp",
           "data mining", "information theory", "storage", "cache", "parallelism", "graph",
           "tree", "binary", "hashing", "blockchain", "cybersecurity", "quantum computing",
           "software engineering", "microarchitecture" >> >>,
     << "History",
        << "war", "empire", "revolution", "histor", "ancient", "medieval", "colonial",
           "civilization", "dynasty", "treaty", "monarchy", "republic", "conquest", "military",
           "battle", "renaissance", "industrial", "cold war", "world war", "enlightenment",
           "pharaoh", "archaeology", "imperialism", "feudalism", "constitution", "reform",
           "rebellion", "independence", "exploration", "migration", "cultural heritage",
           "chronicle", "historic event" >> >>,
     << "Geography",
        << "continent", "country", "climate", "mountain", "river", "latitude", "longitude",
           "topography", "desert", "ocean", "island", "plate tectonics", "weather", "region",
           "urban", "rural", "population", "ecosystem", "rainforest", "volcano", "earthquake",
           "map", "cartography", "habitat", "biome", "altitude", "sea level", "landform",
           "delta", "canyon", "valley", "glacier" >> >>,
     << "Literature",
        << "novel", "poem", "poetry", "literature", "character", "narrative", "prose",
           "metaphor", "allegory", "symbolism", "theme", "plot", "drama", "tragedy", "comedy",
           "author", "genre", "fiction", "nonfiction", "myth", "legend", "epic", "short story",
           "rhetoric", "dialogue", "narrator", "memoir", "biography", "autobiography",
           "manuscript", "allusion", "satire", "imagery" >> >>,
     << "Language",
        << "grammar", "vocabulary", "sentence", "syntax", "linguistics", "translation",
           "phonetics", "phonology", "morphology", "semantics", "pragmatics", "dialect",
           "accent", "lexicon", "conjugation", "declension", "orthography", "writing system",
           "etymology", "discourse", "phrase", "idiom", "bilingual", "multilingual",
           "pronunciation" >> >>,
     << "Art",
        << "painting", "sculpture", "canvas", "gallery", "museum", "visual", "aesthetics",
           "portrait", "landscape", "abstract", "expressionism", "realism", "surrealism",
           "impressionism", "installation", "performance art", "fine art", "brushstroke",
           "composition", "color theory", "perspective", "illustration", "sketch", "modern art",
           "contemporary art", "exhibit" >> >>,
     << "Music",
        << "melody", "harmony", "rhythm", "instrument", "composer", "song", "audio", "pitch",
           "tempo", "tone", "timbre", "scale", "chord", "genre", "orchestra", "symphony",
           "opera", "choir", "band", "beat", "lyrics", "arrangement", "composition",
           "improvisation", "acoustic", "electronic", "soundtrack", "mixing", "recording",
           "notation", "conductor", "performance" >> >>,
     << "Sports",
        << "tournament", "score", "player", "match", "athlete", "game", "league", "championship",
           "coach", "training", "stadium", "team", "referee", "offense", "defense", "tactics",
           "strategy", "injury", "endurance", "competition", "sportsmanship", "record",
           "ranking", "event", "marathon", "sprint", "ball", "equipment", "playoff", "fitness" >> >>,
     << "Entertainment",
        << "movie", "film", "television", "celebrity", "show", "entertainment", "series",
           "episode", "director", "actor", "actress", "script", "screenplay", "animation",
           "cartoon", "streaming", "documentary", "thriller", "comedy", "drama", "action",
           "cinema", "franchise", "soundtrack", "visual effects", "special effects", "broadcast",
           "media", "trailer" >> >> >>

\* The value JavaScript's null is modelled by.
null == "<null>"

\* The class /["“”‘’]/ of normalizeDetected.
QuoteChars == {"\"", "{", "}", "[", "]"}

\* normalizeDetected with the cut at the first period left out.
normalizeDetected_KeepPeriod(raw) ==
  IF raw = "" THEN null
  ELSE trim(splitFirst(trim(removeChars(raw, QuoteChars)), "\n"))

\* normalizeDetected(raw).
normalizeDetected(raw) ==
  IF raw = "" THEN null
  ELSE trim(splitFirst(splitFirst(trim(removeChars(raw, QuoteChars)), "\n"), "."))

(***************************************************************************)
(* detectSubject, step by step.                                            *)
(***************************************************************************)

\* The least element of a non-empty set of integers.
Min(S) == CHOOSE m \in S : \A n \in S : m <= n

\* One outcome of `await model.generateContent(...)`: the call rejects
\* ("throw"), resolves to a response whose text() gives `text` ("text"), or
\* resolves to a value without response.text ("notext").
Outcome(kind, text) == [kind |-> kind, text |-> text]

\* The inner loop of the scores computation: the number of entries kw of
\* `keywords` with `kw && textLower.includes(kw)`.
keywordHits(textLower, keywords) ==
  Cardinality({j \in 1..Len(keywords) :
                 keywords[j] # "" /\ includes(textLower, keywords[j])})

\* Object.entries(scores) after the scores loop: <<subject, score>> in the
\* insertion order of keywordMap, scored against (text || "").toLowerCase().
heuristicScores(text) ==
  LET textLower == toLowerCase(text)
  IN  [i \in 1..Len(keywordMap) |->
         << keywordMap[i][1], keywordHits(textLower, keywordMap[i][2]) >>]

\* An insertion that puts the entry in front of the entries of equal score,
\* as a sort that is not stable may.
insertByScore_Unstable(sorted, e) ==
  LET k == Cardinality({i \in 1..Len(sorted) : sorted[i][2] > e[2]})
  IN  SubSeq(sorted, 1, k) \o << e >> \o SubSeq(sorted, k + 1, Len(sorted))

\* Array.prototype.sort((a,b) => b[1]-a[1]), which is stable: one insertion
\* of entry e into an already sorted array, behind every entry whose score
\* is not smaller.
insertByScore(sorted, e) ==
  LET k == Cardinality({i \in 1..Len(sorted) : sorted[i][2] >= e[2]})
  IN  SubSeq(sorted, 1, k) \o << e >> \o SubSeq(sorted, k + 1, Len(sorted))

RECURSIVE sortScores(_)
sortScores(entries) ==
  IF entries = << >> THEN << >>
  ELSE insertByScore(sortScores(SubSeq(entries, 1, Len(entries) - 1)),
                     entries[Len(entries)])

\* scores[subject] || 0.
scoreOf(scores, subject) ==
  LET I == {i \in 1..Len(scores) : scores[i][1] = subject}
  IN  IF I = {} THEN 0 ELSE scores[Min(I)][2]

\* allowedSubjects.find(s => s.toLowerCase() === cleaned.toLowerCase()).
findExact(cleaned) ==
  LET I == {i \in 1..Len(allowedSubjects) :
              toLowerCase(allowedSubjects[i]) = toLowerCase(cleaned)}
  IN  IF I = {} THEN null ELSE allowedSubjects[Min(I)]

\* allowedSubjects.find(s => cleaned.toLowerCase().includes(s.toLowerCase())).
findContains(cleaned) ==
  LET I == {i \in 1..Len(allowedSubjects) :
              includes(toLowerCase(cleaned), toLowerCase(allowedSubjects[i]))}
  IN  IF I = {} THEN null ELSE allowedSubjects[Min(I)]

\* The synonyms loop: the value of the first key that cleaned.toLowerCase()
\* includes.
findSynonym(cleaned) ==
  LET I == {i \in 1..Len(synonyms) :
              includes(toLowerCase(cleaned), synonyms[i][1])}
  IN  IF I = {} THEN null ELSE synonyms[Min(I)][2]

\* mapModel falling back to the cleaned answer itself when nothing matches.
mapModel_KeepAnswer(cleaned) ==
  IF cleaned = null \/ cleaned = "" THEN null
  ELSE IF findExact(cleaned) # null THEN findExact(cleaned)
  ELSE IF findContains(cleaned) # null THEN findContains(cleaned)
  ELSE IF findSynonym(cleaned) # null THEN findSynonym(cleaned)
  ELSE cleaned

\* mapModel with the synonym map consulted before the containment of labels.
mapModel_SynonymsFirst(cleaned) ==
  IF cleaned = null \/ cleaned = "" THEN null
  ELSE IF findExact(cleaned) # null THEN findExact(cleaned)
  ELSE IF findSynonym(cleaned) # null THEN findSynonym(cleaned)
  ELSE findContains(cleaned)

\* The computation of modelMapped from cleaned.
mapModel(cleaned) ==
  IF cleaned = null \/ cleaned = "" THEN null
  ELSE IF findExact(cleaned) # null THEN findExact(cleaned)
  ELSE IF findContains(cleaned) # null THEN findContains(cleaned)
  ELSE findSynonym(cleaned)

\* The decision logic with >= where the code compares the scores with >.
decide_NotStrict(modelMapped, heuristicSubject, heuristicScore, scores) ==
  IF modelMapped # null
  THEN IF /\ heuristicScore >= 2
          /\ heuristicSubject # modelMapped
          /\ heuristicScore >= scoreOf(scores, modelMapped)
       THEN heuristicSubject
       ELSE modelMapped
  ELSE IF heuristicScore > 0 THEN heuristicSubject ELSE "General"

\* The decision logic without the heuristic fallback of the else branch.
decide_NoFallback(modelMapped, heuristicSubject, heuristicScore, scores) ==
  IF modelMapped # null
  THEN IF /\ heuristicScore >= 2
          /\ heuristicSubject # modelMapped
          /\ heuristicScore > scoreOf(scores, modelMapped)
       THEN heuristicSubject
       ELSE modelMapped
  ELSE "General"

\* The decision logic: the value detectSubject returns, given modelMapped,
\* the heuristic's best entry and the scores.
decide(modelMapped, heuristicSubject, heuristicScore, scores) ==
  IF modelMapped # null
  THEN IF /\ heuristicScore >= 2
          /\ heuristicSubject # modelMapped
          /\ heuristicScore > scoreOf(scores, modelMapped)
       THEN heuristicSubject
       ELSE modelMapped
  ELSE IF heuristicScore > 0 THEN heuristicSubject ELSE "General"

\* The record of detectSubject's locals before any call.
NoSubjectRun ==
  [called |-> FALSE, threw |-> FALSE, raised |-> FALSE, snippet |-> "",
   raw |-> "", cleaned |-> null, scores |-> << >>, heuristicSubject |-> null,
   heuristicScore |-> 0, modelMapped |-> null, returned |-> "General"]

\* The length of the snippet of the text that is sent to the model.
SnippetLength == 2000

\* detectSubject(text) when the model call has outcome `out`: its locals and
\* the value it returns. The call is issued first; a rejected call, or a
\* `text` that is no string (it has no toLowerCase), throws inside the try
\* block, and the catch returns "General".
detectSubject(text, out) ==
  LET snippet == IF text.kind = "string" THEN substring0(text.text, SnippetLength)
                 ELSE ""
  IN
  IF out.kind = "throw"
  THEN [NoSubjectRun EXCEPT !.called = TRUE, !.threw = TRUE, !.snippet = snippet]
  ELSE
    LET raw      == IF out.kind = "text" THEN trim(out.text) ELSE ""
        cleaned  == normalizeDetected(raw)
    IN
    IF text.kind # "string"
    THEN [NoSubjectRun EXCEPT !.called = TRUE, !.threw = TRUE, !.snippet = snippet,
                              !.raw = raw, !.cleaned = cleaned]
    ELSE
      LET scores   == heuristicScores(text.text)
          sorted   == sortScores(scores)
          best     == IF Len(sorted) > 0 THEN sorted[1] ELSE << null, 0 >>
          mapped   == mapModel(cleaned)
      IN  [called |-> TRUE, threw |-> FALSE, raised |-> FALSE, snippet |-> snippet,
           raw |-> raw, cleaned |-> cleaned, scores |-> scores,
           heuristicSubject |-> best[1], heuristicScore |-> best[2],
           modelMapped |-> mapped,
           returned |-> decide(mapped, best[1], best[2], scores)]

(***************************************************************************)
(* detectLanguage.                                                         *)
(***************************************************************************)

\* The request's `content` as the handler holds it: a string, or the
\* uploaded file object (originalname, mimetype, buffer).
StringContent(t) == [kind |-> "string", text |-> t, originalname |-> "", mimetype |-> ""]

FileContent(name, mime, data) ==
  [kind |-> "file", text |-> data, originalname |-> name, mimetype |-> mime]

\* The result of one detection call as its caller sees it: whether the
\* external call was issued, whether something threw inside the function,
\* whether the exception left the function (raised), and the value returned.
DetectionRun(called, threw, raised, returned) ==
  [called |-> called, threw |-> threw, raised |-> raised, returned |-> returned]

\* detectLanguage without its try/catch: the exception leaves the function.
detectLanguage_NoCatch(text, out) ==
  IF text.kind # "string" THEN DetectionRun(FALSE, TRUE, TRUE, "unknown")
  ELSE IF out.kind # "text" THEN DetectionRun(TRUE, TRUE, TRUE, "unknown")
  ELSE DetectionRun(TRUE, FALSE, FALSE,
                    trim(splitFirst(splitFirst(trim(out.text), "\n"), ".")))

\* detectLanguage(text) when the model call has outcome `out`. A `text` that
\* is no string makes text.substring throw before the call is issued; every
\* exception is caught and turned into "unknown".
detectLanguage(text, out) ==
  IF text.kind # "string" THEN DetectionRun(FALSE, TRUE, FALSE, "unknown")
  ELSE IF out.kind # "text" THEN DetectionRun(TRUE, TRUE, FALSE, "unknown")
  ELSE DetectionRun(TRUE, FALSE, FALSE,
                    trim(splitFirst(splitFirst(trim(out.text), "\n"), ".")))

(***************************************************************************)
(* The bounded inputs.                                                     *)
(***************************************************************************)

\* The pieces the input texts of the detection functions are built from.
TextParts ==
  << "integral derivative theorem ", "velocity force quantum energy ",
     "vector field ", "API JSON ", "Integral ", "loop ", "hello " >>

\* The largest number of pieces in one text.
MaxParts == 2

\* The texts of exactly n pieces.
RECURSIVE TextsOf(_)
TextsOf(n) ==
  IF n = 0 THEN {""}
  ELSE {t \o TextParts[i] : t \in TextsOf(n - 1), i \in 1..Len(TextParts)}

\* Every text of at most MaxParts pieces.
Texts == UNION {TextsOf(n) : n \in 0..MaxParts}

\* Texts of white space only.
BlankTexts == {" ", " \n\t "}

\* What the model may answer to the subject prompt.
SubjectOutcomes ==
  { Outcome("throw", ""), Outcome("notext", ""), Outcome("text", ""),
    Outcome("text", "Computer Science.\nExtra text"),
    Outcome("text", "I think it's about coding"),
    Outcome("text", " {physics}\n"),
    Outcome("text", "computer science and programming"),
    Outcome("text", "Mathematics"),
    Outcome("text", "It is [maths]. Or general"),
    Outcome("text", "General"),
    Outcome("text", "cs programming"),
    Outcome("text", "no idea") }

\* What the model may answer to the language prompt.
LanguageOutcomes ==
  { Outcome("throw", ""), Outcome("text", "English"),
    Outcome("text", " Hindi.\nThe text is Hindi"),
    Outcome("text", "## Hindi"), Outcome("text", "") }

\* What the model may answer to the generation prompt.
GenerationOutcomes ==
  { Outcome("throw", ""), Outcome("notext", ""), Outcome("text", "# Notes") }

\* What the model may answer to the correction prompt.
CorrectionOutcomes ==
  { Outcome("throw", ""), Outcome("text", ""), Outcome("text", " \n"),
    Outcome("text", " # Notes, corrected\n") }

\* The texts a request carries in the handler's runs.
RequestTexts == {"integral derivative theorem ", "velocity force API JSON "}

\* The upload of a request: none, an audio file, a text file, or a file of
\* another type in the field `content`.
NoUpload == [kind |-> "none", originalname |-> "", mimetype |-> "", data |-> ""]

Uploads ==
  { NoUpload,
    [kind |-> "audio", originalname |-> "lecture.mp3", mimetype |-> "audio/mpeg",
     data |-> "<audio>"],
    [kind |-> "text", originalname |-> "notes.txt", mimetype |-> "text/plain",
     data |-> "velocity force API JSON "],
    [kind |-> "other", originalname |-> "scan.png", mimetype |-> "image/png",
     data |-> "<png>"] }

\* The ensureDBConnection calls of other requests that find the flag false.
MaxOtherConnects == 1

\* The requests: req.body.type and req.body.content ("" when absent) and the
\* upload.
Requests ==
  [type : {"", "text", "audio", "video"}, body : {""} \cup RequestTexts,
   upload : Uploads]

(***************************************************************************)
(* The server's state.                                                     *)
(***************************************************************************)

VARIABLES
  production,           \* process.env.NODE_ENV === 'production'
  server,               \* "loaded", then "listening" once startServer ran
  isDatabaseConnected,  \* the module's flag
  pc,                   \* where the handler of the request stands
  type,                 \* req.body.type
  content,              \* the handler's `content`
  detectedLanguage,     \* the handler's locals
  detectedSubject,
  userPrompt,
  audioFile,
  generatedNotes,
  targetLanguage,
  noteData,
  languageRuns,         \* one DetectionRun per detectLanguage call, in order
  subjectRun,           \* the locals of the detectSubject call
  calls,                \* the external calls issued, in order
  answers,              \* what the model answered to each of its calls, in order
  response,             \* the response sent
  sent,                 \* the number of responses sent
  saved,                \* the notes the persistence layer holds
  otherPc,              \* where another request stands in ensureDBConnection
  otherConnects,        \* the connectDB calls other requests have issued
  gate,                 \* what the /api/notes gate did with that request
  notes,                \* App: the state of the component
  pagination,
  appliedFilters,
  loading,
  error,
  selectedSubject,
  filterBar,            \* FilterBar: its `filters` state while it is mounted
  fetches,              \* the calls of fetchNotes, in the order issued
  isAdmin,              \* App
  isAuthOpen,
  role,                 \* localStorage: the item 'role'
  storage,              \* localStorage: how it takes reads and writes
  username,             \* AuthModal: its state
  password,
  authError,
  selectedNote,         \* NotesList: its state
  isModalOpen,
  editing,              \* NoteModal: its state
  generatedNotesValue

vars ==
  << production, server, isDatabaseConnected, pc, type, content,
     detectedLanguage, detectedSubject, userPrompt, audioFile, generatedNotes,
     targetLanguage, noteData, languageRuns, subjectRun, calls, answers,
     response, sent, saved, otherPc, otherConnects, gate, notes, pagination,
     appliedFilters, loading, error, selectedSubject, filterBar, fetches,
     isAdmin, isAuthOpen, role, storage, username, password, authError,
     selectedNote, isModalOpen, editing, generatedNotesValue >>

\* The state of the notes page of the frontend, of its login, and of the
\* note modal.
page ==
  << notes, pagination, appliedFilters, loading, error, selectedSubject,
     filterBar, fetches >>

login == << isAdmin, isAuthOpen, role, storage, username, password, authError >>

modal == << selectedNote, isModalOpen, editing, generatedNotesValue >>

frontend == << page, login, modal >>

\* What the other requests have of their own.
others == << otherPc, otherConnects, gate >>

\* The gate before a request under /api/notes.
NoGate == [handled |-> FALSE, dbConnected |-> FALSE, status |-> 0, routes |-> FALSE]

handlerLocals ==
  << type, content, detectedLanguage, detectedSubject, userPrompt, audioFile,
     generatedNotes, targetLanguage, noteData >>

NoContent == [kind |-> "missing", text |-> "", originalname |-> "", mimetype |-> ""]

NoPrompt == [variant |-> "none", language |-> "", subject |-> "", content |-> ""]

NoNote ==
  [input_type |-> "", generated_notes |-> "", detected_language |-> "",
   detected_subject |-> "", original_content |-> ""]

NoResponse ==
  [status |-> 0, kind |-> "none", detected_language |-> "",
   detected_subject |-> "", generated_notes |-> "", saved |-> FALSE,
   note_id |-> 0]

\* A JavaScript object with string values is a function from its keys: {}.
EmptyObject == [k \in {} |-> ""]

\* pagination === null, and selectedNote === null.
NoPagination == [currentPage |-> 0, totalPages |-> 0]

NoSelectedNote == [id |-> 0, generatedNotes |-> ""]

\* The frontend while no page is open in the browser.
PageClosed ==
  /\ notes = << >>
  /\ pagination = NoPagination
  /\ appliedFilters = EmptyObject
  /\ loading = FALSE
  /\ error = null
  /\ selectedSubject = ""
  /\ filterBar = EmptyObject
  /\ fetches = << >>
  /\ isAdmin = FALSE
  /\ isAuthOpen = FALSE
  /\ role = null
  /\ storage = "ok"
  /\ username = ""
  /\ password = ""
  /\ authError = ""
  /\ selectedNote = NoSelectedNote
  /\ isModalOpen = FALSE
  /\ editing = FALSE
  /\ generatedNotesValue = ""

\* The handler's locals and the logs before any request.
InitRequest ==
  /\ type = ""
  /\ detectedLanguage = "unknown"
  /\ detectedSubject = "General"
  /\ userPrompt = NoPrompt
  /\ audioFile = NoContent
  /\ generatedNotes = ""
  /\ targetLanguage = ""
  /\ noteData = NoNote
  /\ languageRuns = << >>
  /\ subjectRun = NoSubjectRun
  /\ calls = << >>
  /\ answers = << >>
  /\ response = NoResponse
  /\ sent = 0
  /\ saved = << >>

\* The state once the module is loaded.
Init ==
  /\ production \in BOOLEAN
  /\ server = "loaded"
  /\ isDatabaseConnected = FALSE
  /\ pc = "idle"
  /\ content = NoContent
  /\ InitRequest
  /\ otherPc = "idle"
  /\ otherConnects = 0
  /\ gate = NoGate
  /\ PageClosed

\* The server before any request, as the frontend's runs leave it.
ServerIdle ==
  /\ production = TRUE
  /\ server = "loaded"
  /\ isDatabaseConnected = FALSE
  /\ pc = "idle"
  /\ content = NoContent
  /\ InitRequest
  /\ otherPc = "idle"
  /\ otherConnects = 0
  /\ gate = NoGate

backend ==
  << production, server, isDatabaseConnected, pc, handlerLocals, languageRuns,
     subjectRun, calls, answers, response, sent, saved, others >>

(***************************************************************************)
(* startServer and the handler of POST /generate-notes, one step per       *)
(* awaited call.                                                           *)
(***************************************************************************)

\* res.status(code).json({error: ...}).
ErrorResponse(code) == [NoResponse EXCEPT !.status = code, !.kind = "error"]

\* res.json({status: "success", ...}) with the handler's locals.
SuccessResponse(language, subject, generated, isSaved, id) ==
  [status |-> 200, kind |-> "success", detected_language |-> language,
   detected_subject |-> subject, generated_notes |-> generated, saved |-> isSaved,
   note_id |-> id]

\* The response when the notes were generated but not saved: status
\* "success" with note_id null.
unsavedResponse_Error(language, subject, generated) == ErrorResponse(500)

unsavedResponse(language, subject, generated) ==
  SuccessResponse(language, subject, generated, FALSE, 0)

\* The handler's `content` after the upload handling.
receivedContent(r) ==
  IF r.upload.kind = "audio"
  THEN FileContent(r.upload.originalname, r.upload.mimetype, r.upload.data)
  ELSE IF r.upload.kind = "text" THEN StringContent(r.upload.data)
  ELSE IF r.body = "" THEN NoContent
  ELSE StringContent(r.body)

\* !content.
isFalsy_Never(c) == FALSE

isFalsy(c) == c.kind = "missing" \/ (c.kind = "string" /\ c.text = "")

\* The condition under which the text branch detects the language again.
needsRetry(language) ==
  \/ language = "unknown"
  \/ includes(language, "English")
  \/ includes(language, "##")

\* typeof content === 'object' && content.buffer: an audio file was uploaded.
isAudioUpload_Never(c) == FALSE

isAudioUpload(c) == c.kind = "file"

\* Where the handler goes after detectSubject: the text branch detects the
\* language once more when the first result needs it, every other path builds
\* its prompt and generates.
afterDetectSubject_Again(t, language) ==
  IF t = "text" /\ needsRetry(language) THEN "detectLanguage" ELSE "generate"

afterDetectSubject(t, language) ==
  IF t = "text" /\ needsRetry(language) THEN "retryLanguage" ELSE "generate"

\* The prompt templates, by the values interpolated into them. The language
\* of a prompt is the language it tells the model to write in.
textPrompt(variant, language, subject, c) ==
  [variant |-> variant, language |-> language, subject |-> subject,
   content |-> c.text]

\* The audio-file prompt names no language: "the original language of the
\* audio".
AudioLanguage == "<the original language of the audio>"

audioFilePrompt(c) ==
  [variant |-> "audioFile", language |-> AudioLanguage, subject |-> "",
   content |-> c.originalname]

\* The primary generation lands in the handler's catch: the call rejected,
\* or its result has no response.text.
generationFailed_Swallowed(out) == FALSE

generationFailed(out) == out.kind # "text"

\* The target language of the correction pass.
targetOf_KeepDetected(language) == language

targetOf(language) ==
  IF language # "" /\ language # "unknown" THEN language ELSE "English"

\* The notes after the correction pass: the trimmed answer when the call
\* returned a text that is not blank, else the notes as they were.
correctedNotes_NoBlankTest(out, generated) ==
  IF out.kind = "text" /\ out.text # "" THEN trim(out.text) ELSE generated

correctedNotes(out, generated) ==
  IF out.kind = "text" /\ trim(out.text) # "" THEN trim(out.text) ELSE generated

\* startServer (not run in production, where the app is exported as is).
StartServer(connected) ==
  /\ ~production
  /\ server = "loaded"
  /\ server' = "listening"
  /\ isDatabaseConnected' = connected
  /\ UNCHANGED << production, pc, handlerLocals, languageRuns, subjectRun,
                  calls, answers, response, sent, saved >>
  /\ UNCHANGED others
  /\ UNCHANGED frontend

\* The request arrives: upload handling, validation and the choice of the
\* branch.
Receive(r) ==
  /\ pc = "idle"
  /\ production \/ server = "listening"
  /\ type' = r.type
  /\ content' = receivedContent(r)
  /\ IF r.type = "" \/ isFalsy(receivedContent(r))
     THEN /\ response' = ErrorResponse(400)
          /\ sent' = sent + 1
          /\ pc' = "done"
          /\ UNCHANGED << audioFile, userPrompt >>
     ELSE IF r.type = "text"
     THEN /\ pc' = "detectLanguage"
          /\ UNCHANGED << response, sent, audioFile, userPrompt >>
     ELSE IF r.type = "audio"
     THEN IF isAudioUpload(receivedContent(r))
          THEN /\ audioFile' = receivedContent(r)
               /\ userPrompt' = audioFilePrompt(receivedContent(r))
               /\ pc' = "generate"
               /\ UNCHANGED << response, sent >>
          ELSE /\ pc' = "detectLanguage"
               /\ UNCHANGED << response, sent, audioFile, userPrompt >>
     ELSE /\ response' = ErrorResponse(400)
          /\ sent' = sent + 1
          /\ pc' = "done"
          /\ UNCHANGED << audioFile, userPrompt >>
  /\ UNCHANGED << production, server, isDatabaseConnected, detectedLanguage,
                  detectedSubject, generatedNotes, targetLanguage, noteData,
                  languageRuns, subjectRun, calls, answers, saved >>
  /\ UNCHANGED others
  /\ UNCHANGED frontend

\* detectedLanguage = await detectLanguage(content).
DetectLanguageStep(out) ==
  /\ pc = "detectLanguage"
  /\ LET run == detectLanguage(content, out)
     IN  /\ languageRuns' = Append(languageRuns, run)
         /\ calls' = IF run.called THEN Append(calls, "detectLanguage") ELSE calls
         /\ answers' = IF run.called THEN Append(answers, out) ELSE answers
         /\ IF run.raised
            THEN /\ response' = ErrorResponse(500)
                 /\ sent' = sent + 1
                 /\ pc' = "done"
                 /\ UNCHANGED detectedLanguage
            ELSE /\ detectedLanguage' = run.returned
                 /\ pc' = "detectSubject"
                 /\ UNCHANGED << response, sent >>
  /\ UNCHANGED << production, server, isDatabaseConnected, type, content,
                  detectedSubject, userPrompt, audioFile, generatedNotes,
                  targetLanguage, noteData, subjectRun, saved >>
  /\ UNCHANGED others
  /\ UNCHANGED frontend

\* detectedSubject = await detectSubject(content), then, in the text branch,
\* the test whether the language is detected again, else the prompt.
DetectSubjectStep(out) ==
  /\ pc = "detectSubject"
  /\ subjectRun' = detectSubject(content, out)
  /\ calls' = IF subjectRun'.called THEN Append(calls, "detectSubject") ELSE calls
  /\ answers' = IF subjectRun'.called THEN Append(answers, out) ELSE answers
  /\ IF subjectRun'.raised
     THEN /\ response' = ErrorResponse(500)
          /\ sent' = sent + 1
          /\ pc' = "done"
          /\ UNCHANGED << detectedSubject, userPrompt >>
     ELSE /\ detectedSubject' = subjectRun'.returned
          /\ UNCHANGED << response, sent >>
          /\ pc' = afterDetectSubject(type, detectedLanguage)
          /\ userPrompt' =
               IF pc' = "generate"
               THEN textPrompt(IF type = "text" THEN "text" ELSE "transcript",
                               detectedLanguage, detectedSubject', content)
               ELSE userPrompt
  /\ UNCHANGED << production, server, isDatabaseConnected, type, content,
                  detectedLanguage, audioFile, generatedNotes, targetLanguage,
                  noteData, languageRuns, saved >>
  /\ UNCHANGED others
  /\ UNCHANGED frontend

\* The second detectedLanguage = await detectLanguage(content) of the text
\* branch, then the prompt.
RetryLanguageStep(out) ==
  /\ pc = "retryLanguage"
  /\ LET run == detectLanguage(content, out)
     IN  /\ languageRuns' = Append(languageRuns, run)
         /\ calls' = IF run.called THEN Append(calls, "detectLanguage") ELSE calls
         /\ answers' = IF run.called THEN Append(answers, out) ELSE answers
         /\ IF run.raised
            THEN /\ response' = ErrorResponse(500)
                 /\ sent' = sent + 1
                 /\ pc' = "done"
                 /\ UNCHANGED << detectedLanguage, userPrompt >>
            ELSE /\ detectedLanguage' = run.returned
                 /\ userPrompt' = textPrompt("text", run.returned, detectedSubject,
                                             content)
                 /\ pc' = "generate"
                 /\ UNCHANGED << response, sent >>
  /\ UNCHANGED << production, server, isDatabaseConnected, type, content,
                  detectedSubject, audioFile, generatedNotes, targetLanguage,
                  noteData, subjectRun, saved >>
  /\ UNCHANGED others
  /\ UNCHANGED frontend

\* result = await model.generateContent(...); generatedNotes =
\* result.response.text(); targetLanguage. A rejected call, or a result
\* without response.text, lands in the handler's catch.
GenerateStep(out) ==
  /\ pc = "generate"
  /\ calls' = Append(calls, IF audioFile.kind = "file" THEN "generateAudio"
                            ELSE "generate")
  /\ answers' = Append(answers, out)
  /\ IF generationFailed(out)
     THEN /\ response' = ErrorResponse(500)
          /\ sent' = sent + 1
          /\ pc' = "done"
          /\ UNCHANGED << generatedNotes, targetLanguage >>
     ELSE /\ generatedNotes' = out.text
          /\ targetLanguage' = targetOf(detectedLanguage)
          /\ pc' = "correct"
          /\ UNCHANGED << response, sent >>
  /\ UNCHANGED << production, server, isDatabaseConnected, type, content,
                  detectedLanguage, detectedSubject, userPrompt, audioFile,
                  noteData, languageRuns, subjectRun, saved >>
  /\ UNCHANGED others
  /\ UNCHANGED frontend

\* The correction pass, detectedLanguage = targetLanguage, and noteData.
CorrectStep(out) ==
  /\ pc = "correct"
  /\ calls' = Append(calls, "correct")
  /\ answers' = Append(answers, out)
  /\ generatedNotes' = correctedNotes(out, generatedNotes)
  /\ detectedLanguage' = targetLanguage
  /\ noteData' =
       [input_type |-> type, generated_notes |-> generatedNotes',
        detected_language |-> targetLanguage,
        detected_subject |-> detectedSubject,
        original_content |->
          IF content.kind = "string" THEN content.text
          ELSE IF content.originalname # "" THEN content.originalname
          ELSE "audio_file"]
  /\ pc' = "ensureDB"
  /\ UNCHANGED << production, server, isDatabaseConnected, type, content,
                  detectedSubject, userPrompt, audioFile, targetLanguage,
                  languageRuns, subjectRun, response, sent, saved >>
  /\ UNCHANGED others
  /\ UNCHANGED frontend

\* ensureDBConnection calls connectDB when it finds the flag false.
mustConnect_Always(flag) == TRUE

mustConnect(flag) == ~flag

\* dbConnected = await ensureDBConnection(), up to its await: with the flag
\* set it returns true and the save is next, else connectDB is called.
EnsureDBStep ==
  /\ pc = "ensureDB"
  /\ IF mustConnect(isDatabaseConnected)
     THEN /\ calls' = Append(calls, "connectDB")
          /\ pc' = "connectDB"
     ELSE /\ pc' = "save"
          /\ UNCHANGED calls
  /\ UNCHANGED << production, server, isDatabaseConnected, handlerLocals,
                  languageRuns, subjectRun, answers, response, sent, saved,
                  others >>
  /\ UNCHANGED frontend

\* isDatabaseConnected = await connectDB(); return isDatabaseConnected:
\* connectDB's result becomes the flag, and without a connection the notes
\* are returned unsaved.
ConnectDBStep(connected) ==
  /\ pc = "connectDB"
  /\ isDatabaseConnected' = connected
  /\ IF connected
     THEN /\ pc' = "save"
          /\ UNCHANGED << response, sent >>
     ELSE /\ response' = unsavedResponse(detectedLanguage, detectedSubject,
                                         generatedNotes)
          /\ sent' = sent + 1
          /\ pc' = "done"
  /\ UNCHANGED << production, server, handlerLocals, languageRuns, subjectRun,
                  calls, answers, saved, others >>
  /\ UNCHANGED frontend

\* The gate of /api/notes with what ensureDBConnection returned: 503
\* without a connection, else next(), which hands the request to the notes
\* routes.
gateOutcome_AlwaysNext(dbConnected) ==
  [handled |-> TRUE, dbConnected |-> dbConnected, status |-> 0, routes |-> TRUE]

gateOutcome(dbConnected) ==
  IF ~dbConnected
  THEN [handled |-> TRUE, dbConnected |-> FALSE, status |-> 503, routes |-> FALSE]
  ELSE [handled |-> TRUE, dbConnected |-> TRUE, status |-> 0, routes |-> TRUE]

\* Another request, under /api/notes, calls ensureDBConnection while the
\* flag is false, and connectDB with it.
OtherEnsureDB ==
  /\ production \/ server = "listening"
  /\ otherPc = "idle"
  /\ otherConnects < MaxOtherConnects
  /\ mustConnect(isDatabaseConnected)
  /\ otherPc' = "connectDB"
  /\ otherConnects' = otherConnects + 1
  /\ gate' = NoGate
  /\ UNCHANGED << production, server, isDatabaseConnected, pc, handlerLocals,
                  languageRuns, subjectRun, calls, answers, response, sent,
                  saved >>
  /\ UNCHANGED frontend

\* The other request's connectDB returns, its result becomes the flag and
\* what ensureDBConnection returns to the gate.
OtherConnectDB(connected) ==
  /\ otherPc = "connectDB"
  /\ isDatabaseConnected' = connected
  /\ otherPc' = "idle"
  /\ gate' = gateOutcome(connected)
  /\ UNCHANGED << production, server, pc, handlerLocals, languageRuns,
                  subjectRun, calls, answers, response, sent, saved,
                  otherConnects >>
  /\ UNCHANGED frontend

\* The other request finds the flag set: ensureDBConnection returns it
\* without a call.
OtherPassGate ==
  /\ production \/ server = "listening"
  /\ otherPc = "idle"
  /\ ~mustConnect(isDatabaseConnected)
  /\ gate' = gateOutcome(isDatabaseConnected)
  /\ UNCHANGED << production, server, isDatabaseConnected, pc, handlerLocals,
                  languageRuns, subjectRun, calls, answers, response, sent,
                  saved, otherPc, otherConnects >>
  /\ UNCHANGED frontend

\* savedNote = await saveNotes(noteData), and the response either way.
SaveStep(ok) ==
  /\ pc = "save"
  /\ calls' = Append(calls, "saveNotes")
  /\ saved' = IF ok THEN Append(saved, noteData) ELSE saved
  /\ response' =
       IF ok
       THEN SuccessResponse(detectedLanguage, detectedSubject, generatedNotes,
                            TRUE, Len(saved) + 1)
       ELSE unsavedResponse(detectedLanguage, detectedSubject, generatedNotes)
  /\ sent' = sent + 1
  /\ pc' = "done"
  /\ UNCHANGED << production, server, isDatabaseConnected, handlerLocals,
                  languageRuns, subjectRun, answers >>
  /\ UNCHANGED others
  /\ UNCHANGED frontend

Next ==
  \/ \E connected \in BOOLEAN : StartServer(connected)
  \/ \E r \in Requests : Receive(r)
  \/ \E out \in LanguageOutcomes : DetectLanguageStep(out)
  \/ \E out \in SubjectOutcomes : DetectSubjectStep(out)
  \/ \E out \in LanguageOutcomes : RetryLanguageStep(out)
  \/ \E out \in GenerationOutcomes : GenerateStep(out)
  \/ \E out \in CorrectionOutcomes : CorrectStep(out)
  \/ EnsureDBStep
  \/ \E connected \in BOOLEAN : ConnectDBStep(connected)
  \/ OtherEnsureDB
  \/ \E connected \in BOOLEAN : OtherConnectDB(connected)
  \/ OtherPassGate
  \/ \E ok \in BOOLEAN : SaveStep(ok)

Spec == Init /\ [][Next]_vars

(***************************************************************************)
(* detectSubject and detectLanguage on their own: every text against every *)
(* answer of the model.                                                    *)
(***************************************************************************)

InitDetect ==
  /\ production = TRUE
  /\ server = "loaded"
  /\ isDatabaseConnected = FALSE
  /\ pc = "detect"
  /\ content \in {StringContent(t) : t \in Texts \cup BlankTexts}
  /\ InitRequest
  /\ otherPc = "idle"
  /\ otherConnects = 0
  /\ gate = NoGate
  /\ PageClosed

\* detectedSubject = await detectSubject(content), and nothing else.
ApplyDetectSubject(out) ==
  /\ pc = "detect"
  /\ subjectRun' = detectSubject(content, out)
  /\ detectedSubject' = subjectRun'.returned
  /\ calls' = Append(calls, "detectSubject")
  /\ answers' = Append(answers, out)
  /\ pc' = "returned"
  /\ UNCHANGED << production, server, isDatabaseConnected, type, content,
                  detectedLanguage, userPrompt, audioFile, generatedNotes,
                  targetLanguage, noteData, languageRuns, response, sent, saved >>
  /\ UNCHANGED others
  /\ UNCHANGED frontend

\* detectedLanguage = await detectLanguage(content), and nothing else.
ApplyDetectLanguage(out) ==
  /\ pc = "detect"
  /\ languageRuns' = << detectLanguage(content, out) >>
  /\ detectedLanguage' = languageRuns'[1].returned
  /\ calls' = Append(calls, "detectLanguage")
  /\ answers' = Append(answers, out)
  /\ pc' = "returnedLanguage"
  /\ UNCHANGED << production, server, isDatabaseConnected, type, content,
                  detectedSubject, userPrompt, audioFile, generatedNotes,
                  targetLanguage, noteData, subjectRun, response, sent, saved,
                  others >>
  /\ UNCHANGED frontend

NextDetect ==
  \/ \E out \in SubjectOutcomes : ApplyDetectSubject(out)
  \/ \E out \in LanguageOutcomes : ApplyDetectLanguage(out)

SpecDetect == InitDetect /\ [][NextDetect]_vars

(***************************************************************************)
(* Properties of detectSubject, checked under SpecDetect.                  *)
(***************************************************************************)

\* The taxonomy as a set.
Taxonomy == {allowedSubjects[i] : i \in 1..Len(allowedSubjects)}

\* detectSubject has returned without an exception inside it.
Returned == pc = "returned" /\ ~subjectRun.threw

\* The heuristic score the run holds for a label (0 for a label without one).
RunScore(label) ==
  LET I == {i \in 1..Len(subjectRun.scores) : subjectRun.scores[i][1] = label}
  IN  IF I = {} THEN 0 ELSE subjectRun.scores[CHOOSE i \in I : TRUE][2]

\* The heuristic prevails over the model's label.
Overrides(H, h, M) == H # M /\ h >= 2 /\ h > RunScore(M)

\* C1: whatever the text and whatever the model call does (any answer, an
\* empty one, an exception), detectSubject returns one of the 15 labels of
\* the taxonomy.
C1_ReturnsTaxonomyLabel ==
  pc = "returned" => detectedSubject \in Taxonomy /\ detectedSubject # null

\* C1 witness: the model answered with a string outside the taxonomy that
\* maps to nothing, and a label was returned all the same.
C1_Witness ==
  /\ pc = "returned"
  /\ subjectRun.cleaned = "no idea"
  /\ subjectRun.modelMapped = null
  /\ detectedSubject = "Physics"

\* C2: with a model label M, a heuristic top label H and top score h, the
\* result is H when H differs from M, h >= 2 and h exceeds M's own heuristic
\* score, and M in every other case.
C2_DecisionWithModelLabel ==
  (Returned /\ subjectRun.modelMapped # null) =>
    detectedSubject =
      IF Overrides(subjectRun.heuristicSubject, subjectRun.heuristicScore,
                   subjectRun.modelMapped)
      THEN subjectRun.heuristicSubject
      ELSE subjectRun.modelMapped

\* C2 witness: the heuristic's label replaced a different model label.
C2_Witness ==
  /\ Returned
  /\ subjectRun.modelMapped = "Physics"
  /\ subjectRun.heuristicSubject = "Mathematics"
  /\ subjectRun.heuristicScore = 3
  /\ detectedSubject = "Mathematics"

\* The sum of the heuristic scores of the run.
RECURSIVE SumScores(_)
SumScores(scores) ==
  IF scores = << >> THEN 0
  ELSE scores[1][2] + SumScores(SubSeq(scores, 2, Len(scores)))

\* The text's keyword hits are "integral", "derivative" and "theorem" and no
\* others (3 hits).
ThreeMathHits ==
  /\ includes(toLowerCase(content.text), "integral")
  /\ includes(toLowerCase(content.text), "derivative")
  /\ includes(toLowerCase(content.text), "theorem")
  /\ SumScores(subjectRun.scores) = 3

HitsInLowered(textLower, keywords) ==
  Cardinality({j \in 1..Len(keywords) :
                 includes(textLower, toLowerCase(keywords[j]))})

\* The number of entries of `keywords` that occur in `text` when both are
\* compared without regard to case.
CaseInsensitiveHits(text, keywords) == HitsInLowered(toLowerCase(text), keywords)

\* The labels with at least one keyword in the text, compared without
\* regard to case.
LabelsHit(text) ==
  {i \in 1..Len(keywordMap) : CaseInsensitiveHits(text, keywordMap[i][2]) > 0}

\* C5: when the text holds at least 2 keywords of exactly one label's list
\* and the model names another label, the heuristic label is returned
\* whenever its score exceeds the model label's score.
C5_SingleLabelKeywordsWin ==
  (Returned /\ subjectRun.modelMapped # null) =>
    \A hit \in {LabelsHit(content.text)} :
      \A i \in hit :
        ( /\ hit = {i}
          /\ CaseInsensitiveHits(content.text, keywordMap[i][2]) >= 2
          /\ subjectRun.modelMapped # keywordMap[i][1]
          /\ RunScore(keywordMap[i][1]) > RunScore(subjectRun.modelMapped) )
        => detectedSubject = keywordMap[i][1]

\* C6: the model's label comes from the cleaned answer by the first of three
\* steps that matches: equality with a label, containment of a label (the
\* first in taxonomy order), containment of a synonym key (the first in the
\* order of the synonym map, mapped to its label); it is null when none
\* matches. "I think it's about coding" gives "Programming".
C6_ModelVoteNormalization ==
  Returned =>
    LET c == subjectRun.cleaned
        l == toLowerCase(c)
        E == {i \in 1..Len(allowedSubjects) : toLowerCase(allowedSubjects[i]) = l}
        K == {i \in 1..Len(allowedSubjects) :
                includes(l, toLowerCase(allowedSubjects[i]))}
        S == {i \in 1..Len(synonyms) : includes(l, synonyms[i][1])}
    IN  /\ subjectRun.modelMapped =
             IF c = null \/ c = "" THEN null
             ELSE IF E # {} THEN allowedSubjects[Min(E)]
             ELSE IF K # {} THEN allowedSubjects[Min(K)]
             ELSE IF S # {} THEN synonyms[Min(S)][2]
             ELSE null
        /\ c = "I think it's about coding" => subjectRun.modelMapped = "Programming"

\* C6 witness: an answer that holds two labels, of which the first in
\* taxonomy order is taken although a synonym key of the other comes first
\* in the synonym map.
C6_Witness ==
  /\ Returned
  /\ subjectRun.cleaned = "computer science and programming"
  /\ subjectRun.modelMapped = "Programming"

\* The characters of a string, as a set.
Chars(str) == {SubSeq(str, i, i) : i \in 1..Len(str)}

\* The answer of the example of C7.
ExampleAnswer == "Computer Science.\nExtra text"

\* C7 as stated: the answer "Computer Science.\nExtra text" is cleaned to
\* "Computer Science" and that label is what detectSubject returns.
C7_Original ==
  (Returned /\ subjectRun.raw = ExampleAnswer) =>
    /\ subjectRun.cleaned = "Computer Science"
    /\ detectedSubject = "Computer Science"

\* C7, amended: the cleaned answer holds no quote character, no line break
\* and no period and is trimmed; "Computer Science.\nExtra text" is cleaned
\* to "Computer Science", which is the model's label as it stands, and is
\* returned unless the heuristic prevails over it.
C7_CleaningAndExample ==
  (Returned /\ subjectRun.raw # "") =>
    /\ Chars(subjectRun.cleaned) \cap (QuoteChars \cup {"\n", "."}) = {}
    /\ trim(subjectRun.cleaned) = subjectRun.cleaned
    /\ subjectRun.raw = ExampleAnswer =>
         /\ subjectRun.cleaned = "Computer Science"
         /\ subjectRun.modelMapped = "Computer Science"
         /\ detectedSubject =
              IF Overrides(subjectRun.heuristicSubject, subjectRun.heuristicScore,
                           "Computer Science")
              THEN subjectRun.heuristicSubject
              ELSE "Computer Science"

\* C7 witness: the example answer, returned as it was cleaned.
C7_Witness ==
  /\ Returned
  /\ subjectRun.raw = ExampleAnswer
  /\ subjectRun.cleaned = "Computer Science"
  /\ detectedSubject = "Computer Science"

\* C8: the heuristic score of every label is the number of its keywords that
\* occur in the text, compared without regard to case, the keywords written
\* in upper case included.
C8_ScoresCountKeywords ==
  Returned =>
    \A i \in 1..Len(keywordMap) :
      /\ subjectRun.scores[i][1] = keywordMap[i][1]
      /\ subjectRun.scores[i][2] = CaseInsensitiveHits(content.text, keywordMap[i][2])

\* The position of a label in the taxonomy.
TaxonomyIndex(label) ==
  CHOOSE i \in 1..Len(allowedSubjects) : allowedSubjects[i] = label

\* C9: when several labels share the greatest heuristic score, the
\* heuristic's top label is the first of them in taxonomy order.
C9_TieGoesToFirstLabel ==
  Returned =>
    LET top == {i \in 1..Len(subjectRun.scores) :
                  \A j \in 1..Len(subjectRun.scores) :
                    subjectRun.scores[i][2] >= subjectRun.scores[j][2]}
    IN  /\ subjectRun.heuristicSubject \in {subjectRun.scores[i][1] : i \in top}
        /\ \A i \in top :
             TaxonomyIndex(subjectRun.heuristicSubject)
               <= TaxonomyIndex(subjectRun.scores[i][1])
        /\ \A i \in top : subjectRun.heuristicScore = subjectRun.scores[i][2]

\* C9 witness: "Mathematics" and "Physics" share the greatest score, 2, and
\* "Mathematics" is the top label.
C9_Witness ==
  /\ Returned
  /\ RunScore("Mathematics") = 2
  /\ RunScore("Physics") = 2
  /\ subjectRun.heuristicScore = 2
  /\ subjectRun.heuristicSubject = "Mathematics"

(***************************************************************************)
(* Properties of the handler, checked under Spec.                          *)
(***************************************************************************)

\* The last element of a non-empty sequence.
Last(seq) == seq[Len(seq)]

\* C4: an exception during detection makes detectSubject return "General"
\* and detectLanguage return "unknown"; neither lets it reach the handler,
\* so an error response never comes from a detection.
C4_DetectionFailureAbsorbed ==
  /\ \A i \in 1..Len(languageRuns) :
       languageRuns[i].threw =>
         languageRuns[i].returned = "unknown" /\ ~languageRuns[i].raised
  /\ subjectRun.threw => subjectRun.returned = "General" /\ ~subjectRun.raised
  /\ (pc = "detectSubject" /\ Last(languageRuns).threw) =>
       detectedLanguage = "unknown"
  /\ (pc \in {"retryLanguage", "generate"} /\ subjectRun.threw) =>
       detectedSubject = "General"
  /\ response.status = 500 =>
       calls # << >> /\ Last(calls) \in {"generate", "generateAudio"}

\* C4 witness: both detections threw and the request ended in success.
C4_Witness ==
  /\ pc = "done"
  /\ response.status = 200
  /\ Len(languageRuns) = 2
  /\ languageRuns[1].threw
  /\ languageRuns[1].called
  /\ subjectRun.threw
  /\ response.detected_subject = "General"

\* The first result that makes the caller detect the language again.
Suspicious(language) ==
  \/ language = "unknown"
  \/ includes(language, "English")
  \/ includes(language, "##")

\* C10: once the detection of a request is over, detectLanguage has run
\* twice when the first result was "unknown" or held "English" or "##", and
\* once otherwise, and the last result is the one the prompt uses.
C10_RetryExactlyWhenSuspicious ==
  (Len(languageRuns) >= 1 /\ pc \in {"generate", "correct", "ensureDB", "connectDB", "save", "done"}) =>
    /\ Len(languageRuns) = IF Suspicious(languageRuns[1].returned) THEN 2 ELSE 1
    /\ userPrompt.language = Last(languageRuns).returned

\* The states in which the handler has built noteData.
NoteBuilt ==
  pc \in {"ensureDB", "connectDB", "save"} \/ (pc = "done" /\ response.kind = "success")

\* What the detection of the request ended with: the result of the last
\* detectLanguage, "unknown" when none ran.
DetectionEnd ==
  IF languageRuns = << >> THEN "unknown" ELSE Last(languageRuns).returned

\* C11: every successful response and every note record handed to the
\* persistence layer carries a detected_language other than "unknown"; when
\* the detection ended with "unknown", or never ran, that language is
\* "English".
C11_LanguageNeverUnknown ==
  /\ response.kind = "success" => response.detected_language # "unknown"
  /\ NoteBuilt => noteData.detected_language # "unknown"
  /\ \A i \in 1..Len(saved) : saved[i].detected_language # "unknown"
  /\ (NoteBuilt /\ DetectionEnd = "unknown") =>
       /\ noteData.detected_language = "English"
       /\ response.kind = "success" => response.detected_language = "English"
       /\ \A i \in 1..Len(saved) : saved[i].detected_language = "English"

\* C11 witness: the detection of a text request ended with "unknown" and the
\* note was saved and returned with "English".
C11_Witness ==
  /\ pc = "done"
  /\ response.kind = "success"
  /\ languageRuns # << >>
  /\ Last(languageRuns).returned = "unknown"
  /\ response.detected_language = "English"
  /\ Len(saved) = 1
  /\ saved[1].detected_language = "English"

\* The states in which the target language of the correction pass is set.
TargetSet ==
  \/ pc \in {"correct", "ensureDB", "connectDB", "save"}
  \/ pc = "done" /\ response.kind = "success"

\* C12: the language the correction pass demands is the language the
\* primary generation prompt told the model to write in, whatever the input
\* variant and the detection outcome.
C12_CorrectionTargetsPromptLanguage ==
  TargetSet => targetLanguage = userPrompt.language

\* What the text branch does with a content and the model's answers a1, a2,
\* a3 to its calls: detectLanguage, detectSubject, and detectLanguage again
\* when the first result needs it.
TextPath(c, a1, a2, a3) ==
  LET first == detectLanguage(c, a1).returned
      subject == detectSubject(c, a2).returned
  IN  IF needsRetry(first)
      THEN [calls |-> << "detectLanguage", "detectSubject", "detectLanguage" >>,
            language |-> detectLanguage(c, a3).returned, subject |-> subject]
      ELSE [calls |-> << "detectLanguage", "detectSubject" >>,
            language |-> first, subject |-> subject]

\* A request of type "audio" whose content is a transcript, with its
\* detection over.
TranscriptDetected ==
  type = "audio" /\ content.kind = "string" /\ pc = "generate"

\* C13: for an audio request with a transcript the detection is the text
\* branch's: on the same content and the same answers of the model it issues
\* the same detection calls and ends with the same language and subject.
C13_TranscriptDetectedAsText ==
  TranscriptDetected =>
    \A a3 \in LanguageOutcomes :
      TextPath(content, answers[1], answers[2], a3) =
        [calls |-> calls, language |-> detectedLanguage,
         subject |-> detectedSubject]

\* The calls to the external model, among the external calls of a request.
ModelCalls ==
  {"detectLanguage", "detectSubject", "generate", "generateAudio", "correct"}

ModelCallsOf(seq) == SelectSeq(seq, LAMBDA c : c \in ModelCalls)

IsPrefix(a, b) == Len(a) <= Len(b) /\ a = SubSeq(b, 1, Len(a))

\* A request of type "audio" with an uploaded audio file.
AudioFileRequest == type = "audio" /\ content.kind = "file"

\* C14: for an audio request with an uploaded audio file no language or
\* subject detection call is issued; the only calls to the model are the
\* primary generation, with the audio inline, and then the correction pass.
C14_AudioFileSkipsDetection ==
  AudioFileRequest =>
    /\ \A i \in 1..Len(calls) : calls[i] \notin {"detectLanguage", "detectSubject"}
    /\ \A i \in 1..Len(languageRuns) : ~languageRuns[i].called
    /\ ~subjectRun.called
    /\ IsPrefix(ModelCallsOf(calls), << "generateAudio", "correct" >>)
    /\ Len(answers) = Len(ModelCallsOf(calls))
    /\ response.kind = "success" =>
         ModelCallsOf(calls) = << "generateAudio", "correct" >>

\* C14 witness: an audio-file request answered with success after exactly
\* the generation with the audio and the correction pass.
C14_Witness ==
  /\ AudioFileRequest
  /\ pc = "done"
  /\ response.kind = "success"
  /\ audioFile.originalname = "lecture.mp3"
  /\ ModelCallsOf(calls) = << "generateAudio", "correct" >>

\* The place of the i-th call of a sequence in the order language detection
\* (1), subject detection (2), language detection again (3), primary
\* generation (4), correction pass (5).
Stage(seq, i) ==
  CASE seq[i] = "detectLanguage" ->
         IF \E j \in 1..(i - 1) : seq[j] = "detectSubject" THEN 3 ELSE 1
    [] seq[i] = "detectSubject" -> 2
    [] seq[i] \in {"generate", "generateAudio"} -> 4
    [] seq[i] = "correct" -> 5
    [] OTHER -> 6

InOrder(seq) ==
  \A i \in 1..Len(seq) : \A j \in (i + 1)..Len(seq) : Stage(seq, i) < Stage(seq, j)

\* C15: the calls of a request to the model are issued one after another,
\* each answered before the next is issued, in the order language detection,
\* subject detection, language detection again (if at all), primary
\* generation, correction pass; every call issued so far has its answer, so
\* no two are in flight together.
C15_CallsSequentialInOrder ==
  /\ InOrder(ModelCallsOf(calls))
  /\ Len(answers) = Len(ModelCallsOf(calls))
  /\ \A i \in 1..Len(calls) : \A j \in (i + 1)..Len(calls) :
       calls[i] \notin ModelCalls => calls[j] \notin ModelCalls

\* C15 witness: a text request went through all five calls.
C15_Witness ==
  /\ pc = "done"
  /\ ModelCallsOf(calls) =
       << "detectLanguage", "detectSubject", "detectLanguage", "generate",
          "correct" >>
  /\ Len(answers) = 5

\* The primary generation of the request, once issued: its place among the
\* calls and the model's answer to it.
GenerationCalled ==
  \E i \in 1..Len(calls) : calls[i] \in {"generate", "generateAudio"}

GenerationAnswer ==
  answers[CHOOSE i \in 1..Len(calls) : calls[i] \in {"generate", "generateAudio"}]

Called(name) == \E i \in 1..Len(calls) : calls[i] = name

\* C16: when the call of the primary generation fails the request ends with
\* status 500 and an error body: no notes in the response, no correction
\* pass, no save.
C16_GenerationFailureIsHard ==
  (GenerationCalled /\ GenerationAnswer.kind # "text") =>
    /\ pc = "done"
    /\ sent = 1
    /\ response.status = 500
    /\ response.kind = "error"
    /\ response.generated_notes = ""
    /\ ~Called("correct")
    /\ ~Called("connectDB")
    /\ ~Called("saveNotes")
    /\ saved = << >>

\* C16 witness: after both detections the generation call was rejected and
\* the request ended with 500.
C16_Witness ==
  /\ GenerationCalled
  /\ GenerationAnswer.kind = "throw"
  /\ Called("detectSubject")
  /\ response.status = 500

\* The model's answer to the correction pass, once issued.
CorrectionAnswer == answers[CHOOSE i \in 1..Len(calls) : calls[i] = "correct"]

\* A text that is empty or holds white space only.
Blank(str) == \A i \in 1..Len(str) : SubSeq(str, i, i) \in WhiteSpace

\* The correction call failed or returned an empty or blank text.
CorrectionUnusable ==
  /\ Called("correct")
  /\ CorrectionAnswer.kind # "text" \/ Blank(CorrectionAnswer.text)

\* C17: when the correction call fails, or returns an empty or
\* whitespace-only text, the request still succeeds and the notes returned
\* and saved are exactly the text of the primary generation.
C17_CorrectionFailureKeepsNotes ==
  CorrectionUnusable =>
    /\ generatedNotes = GenerationAnswer.text
    /\ noteData.generated_notes = GenerationAnswer.text
    /\ response.kind # "error"
    /\ pc = "done" =>
         /\ response.status = 200
         /\ response.kind = "success"
         /\ response.generated_notes = GenerationAnswer.text
    /\ \A i \in 1..Len(saved) : saved[i].generated_notes = GenerationAnswer.text

\* C17 witness: the correction pass answered white space only and the note
\* was saved and returned with the primary generation's text.
C17_Witness ==
  /\ pc = "done"
  /\ Called("correct")
  /\ CorrectionAnswer = Outcome("text", " \n")
  /\ response.kind = "success"
  /\ response.generated_notes = "# Notes"
  /\ Len(saved) = 1
  /\ saved[1].generated_notes = "# Notes"

\* The places of a call among the calls of the request.
PlacesOf(names) == {i \in 1..Len(calls) : calls[i] \in names}

\* C18: a note is created only after the primary generation call returned
\* with success; the save is attempted at most once in a request, and never
\* in a request that ends with an error status.
C18_SaveOnlyAfterGeneration ==
  /\ \A s \in PlacesOf({"saveNotes"}) :
       /\ GenerationAnswer.kind = "text"
       /\ \E g \in PlacesOf({"generate", "generateAudio"}) : g < s
  /\ saved # << >> =>
       /\ Called("saveNotes")
       /\ saved = << noteData >>
       /\ noteData.generated_notes = generatedNotes
  /\ Cardinality(PlacesOf({"saveNotes"})) <= 1
  /\ response.kind = "error" => ~Called("saveNotes") /\ saved = << >>

\* C18 witness: a request whose generation returned and whose note was
\* saved by its one save.
C18_Witness ==
  /\ pc = "done"
  /\ GenerationCalled
  /\ GenerationAnswer = Outcome("text", "# Notes")
  /\ Cardinality(PlacesOf({"saveNotes"})) = 1
  /\ Len(saved) = 1
  /\ response.saved
  /\ response.note_id = 1

\* A step of a request, this one or another: every step but startServer's.
RequestStep == server' = server

\* A step of another request.
OtherStep == otherPc' # otherPc

\* C19 as stated: requests share no mutable state, so no step of a request
\* changes what another request reads: the isDatabaseConnected flag stays
\* as startServer left it.
C19_NoSharedMutableState ==
  [][RequestStep => isDatabaseConnected' = isDatabaseConnected]_vars

\* C19: the requests share the isDatabaseConnected flag and nothing else. A
\* step of another request changes nothing of this request, only the flag,
\* and the flag is written only by a connectDB that returns; this request
\* reads the flag in ensureDBConnection, where it decides between calling
\* connectDB and going on to the save.
C19_OnlyTheFlagIsShared ==
  [][/\ OtherStep =>
          UNCHANGED << pc, handlerLocals, languageRuns, subjectRun, calls,
                       answers, response, sent, saved >>
     /\ (RequestStep /\ isDatabaseConnected' # isDatabaseConnected) =>
          \/ pc = "connectDB" /\ pc' # pc
          \/ otherPc = "connectDB" /\ otherPc' # otherPc
     /\ (pc = "ensureDB" /\ pc' # pc) =>
          /\ isDatabaseConnected => pc' = "save" /\ calls' = calls
          /\ ~isDatabaseConnected =>
               pc' = "connectDB" /\ calls' = Append(calls, "connectDB")]_vars

\* C19 witness: in production another request connected to the database,
\* and this request, finding the flag set, saved its note without a
\* connectDB call of its own.
C19_Witness ==
  /\ production
  /\ otherConnects = 1
  /\ pc = "done"
  /\ response.saved
  /\ Len(saved) = 1
  /\ ~Called("connectDB")

(***************************************************************************)
(* detectLanguage and detectSubject on blank texts, checked under          *)
(* SpecDetect.                                                             *)
(***************************************************************************)

\* The content is a string that is empty or holds white space only.
BlankContent == content.kind = "string" /\ Blank(content.text)

\* C20: given an empty or blank content string, detectLanguage and
\* detectSubject do not raise and return "unknown" and "General".
C20_BlankContentGivesSentinels ==
  /\ (BlankContent /\ pc = "returnedLanguage") =>
       ~languageRuns[1].raised /\ languageRuns[1].returned = "unknown"
  /\ (BlankContent /\ pc = "returned") =>
       ~subjectRun.raised /\ subjectRun.returned = "General"

\* The notes of the request have been generated: the primary generation
\* returned a text.
NotesGenerated == GenerationCalled /\ GenerationAnswer.kind = "text"

\* The request found no database connection, or its save failed.
NotSaved ==
  /\ pc = "done"
  /\ NotesGenerated
  /\ saved = << >>

\* C24: once the notes are generated, a failing save or a database that is
\* not connected does not fail the request: the one response sent has
\* status "success", the generated notes, the detected language and subject,
\* and note_id null.
C24_UnsavedNotesStillReturned ==
  /\ NotesGenerated => response.kind # "error"
  /\ NotSaved =>
       /\ sent = 1
       /\ response.status = 200
       /\ response.kind = "success"
       /\ response.generated_notes = generatedNotes
       /\ response.generated_notes = noteData.generated_notes
       /\ response.detected_language = noteData.detected_language
       /\ response.detected_subject = noteData.detected_subject
       /\ ~response.saved
       /\ response.note_id = 0
  /\ pc = "done" => sent = 1
  /\ pc # "done" => sent = 0

\* C24 witness: the connection was there and the save failed; the notes
\* came back with success and no note id.
C24_Witness ==
  /\ NotSaved
  /\ Called("saveNotes")
  /\ response.kind = "success"
  /\ response.generated_notes = "# Notes, corrected"
  /\ response.note_id = 0

\* The request handled has no type, no content, or a type that is neither
\* "text" nor "audio".
MissingField ==
  \/ type = ""
  \/ content.kind = "missing"
  \/ content.kind = "string" /\ content.text = ""

InvalidRequest == pc # "idle" /\ (MissingField \/ type \notin {"text", "audio"})

\* C25: a request with a missing type or content, or with a type other than
\* "text" and "audio", is answered with 400 and causes no call to the model
\* and no save.
C25_InvalidRequestRejected ==
  InvalidRequest =>
    /\ pc = "done"
    /\ sent = 1
    /\ response.status = 400
    /\ response.kind = "error"
    /\ calls = << >>
    /\ answers = << >>
    /\ languageRuns = << >>
    /\ ~subjectRun.called
    /\ saved = << >>

\* C25 witness: a request of type "video" with a content was answered with
\* 400.
C25_Witness ==
  /\ pc = "done"
  /\ type = "video"
  /\ content.kind = "string"
  /\ content.text # ""
  /\ response.status = 400
  /\ calls = << >>

\* C26: a request under /api/notes reaches the notes routes only when
\* ensureDBConnection returned true for it; otherwise it is answered with
\* 503 and the routes are not invoked.
C26_GateNeedsConnection ==
  /\ gate.routes => gate.handled /\ gate.dbConnected /\ gate.status = 0
  /\ (gate.handled /\ ~gate.dbConnected) => gate.status = 503 /\ ~gate.routes
  /\ gate.status = 503 => ~gate.routes
  /\ (gate.handled /\ otherPc = "idle" /\ otherConnects = 0) => gate.dbConnected

\* C26 witness: the request's own connectDB failed and the gate answered
\* 503 without the routes.
C26_Witness ==
  /\ otherConnects = 1
  /\ otherPc = "idle"
  /\ gate.handled
  /\ ~gate.dbConnected
  /\ gate.status = 503
  /\ ~gate.routes

\* A connectDB call is issued in this step, by this request or the other.
ConnectIssued ==
  \/ pc' = "connectDB" /\ pc # "connectDB"
  \/ otherPc' = "connectDB" /\ otherPc # "connectDB"

\* The connectDB calls in progress.
ConnectsInProgress ==
  (IF pc = "connectDB" THEN 1 ELSE 0) + (IF otherPc = "connectDB" THEN 1 ELSE 0)

\* C27: the isDatabaseConnected flag never goes from true back to false,
\* connectDB is invoked only while the flag is false, and at most one
\* connectDB call is in progress at any time, also when several requests
\* call ensureDBConnection concurrently.
C27_ConnectOnceFlagMonotonic ==
  [][/\ isDatabaseConnected => isDatabaseConnected'
     /\ ConnectIssued => ~isDatabaseConnected
     /\ ConnectsInProgress' <= 1]_vars

(***************************************************************************)
(* The notes page of the frontend: the App component, FilterBar and the    *)
(* notes API client.  Every call of fetchNotes is kept in `fetches` with   *)
(* what it was called with and how it settled; responses arrive in any     *)
(* order.                                                                  *)
(***************************************************************************)

\* The fetches one page load may issue.
MaxFetches == 4

\* Two of the subject cards of the home page.
SubjectCards == {"Mathematics", "Physics"}

\* The default date range FilterBar sets when it mounts: the last 30 days.
DefaultStartDate == "2026-10-04"

DefaultEndDate == "2026-11-03"

\* What the user may put into the inputs of FilterBar.
FieldValues ==
  [search |-> {"", "algebra"}, language |-> {"", "Hindi"}]

\* obj[k], and the spread {...f, ...g}.
Get(obj, k) == IF k \in DOMAIN obj THEN obj[k] ELSE ""

Merge(f, g) ==
  [k \in DOMAIN f \cup DOMAIN g |-> IF k \in DOMAIN g THEN g[k] ELSE f[k]]

\* The object {subject: s}.
SubjectFilter(s) == [k \in {"subject"} |-> s]

\* FilterBar's `filters`: its initial state, and after the effect that runs
\* when it mounts.
clearedFilters ==
  [search |-> "", startDate |-> "", endDate |-> "", language |-> "",
   subject |-> ""]

mountedFilters ==
  [clearedFilters EXCEPT !.startDate = DefaultStartDate,
                         !.endDate = DefaultEndDate]

hasActiveFilters == \E k \in DOMAIN filterBar : filterBar[k] # ""

\* The query string notesApi.fetchNotes builds: a parameter is appended
\* only when its value is truthy.
queryOf(filters) ==
  [k \in {f \in DOMAIN filters : filters[f] # ""} |-> filters[k]]

\* The notes the server may list.
note1 == [id |-> 1, generatedNotes |-> "Algebra notes"]

note2 == [id |-> 2, generatedNotes |-> "Optics notes"]

\* The listings the server may answer with: the notes of the page, and
\* the number of pages.
Listings ==
  {[notes |-> << note1, note2 >>, totalPages |-> 2],
   [notes |-> << note2 >>, totalPages |-> 1]}

PageNumbers == {1, 2}

NoBody ==
  [status |-> "none", notes |-> << >>, pagination |-> NoPagination,
   appliedFilters |-> EmptyObject]

\* A success body of GET /api/notes for the call `f`: the listing, the
\* page asked for, and the filters of the query.
successBody(f, listing) ==
  [status |-> "success", notes |-> listing.notes,
   pagination |-> [currentPage |-> f.page, totalPages |-> listing.totalPages],
   appliedFilters |-> queryOf(f.filters)]

\* The messages of the two errors fetchNotes can catch: the client throws
\* on a response that is not ok, the component on a status not 'success'.
FetchErrors == {"HTTP error! status: 500", "Failed to fetch notes"}

\* A call fetchNotes(filters, page), made by `origin` while the selected
\* subject was `selected`.
Fetch(filters, pageNo, origin, selected) ==
  [filters |-> filters, page |-> pageNo, origin |-> origin,
   selected |-> selected, state |-> "pending", response |-> NoBody]

Pending == {i \in DOMAIN fetches : fetches[i].state = "pending"}

\* NotesList renders NoteModal only in its last return: not while loading,
\* not while an error is shown; NotesList itself is on the subject page.
NotesListMounted == selectedSubject # ""

NoteModalMounted == NotesListMounted /\ ~loading /\ error = null

\* What the new render does to NotesList and NoteModal: a component that
\* is not rendered loses its state and mounts again with the initial one.
Render ==
  /\ selectedNote' = IF NotesListMounted' THEN selectedNote ELSE NoSelectedNote
  /\ isModalOpen' = IF NotesListMounted' THEN isModalOpen ELSE FALSE
  /\ editing' = IF NoteModalMounted' THEN editing ELSE FALSE
  /\ generatedNotesValue' =
       IF NoteModalMounted' THEN generatedNotesValue
       ELSE selectedNote'.generatedNotes

\* The page after its first render and the initial-load effect.
PageLoaded ==
  /\ notes = << >>
  /\ pagination = NoPagination
  /\ appliedFilters = EmptyObject
  /\ loading = TRUE
  /\ error = null
  /\ selectedSubject = ""
  /\ filterBar = EmptyObject
  /\ fetches = << Fetch(EmptyObject, 1, "effect", "") >>

LoggedOut ==
  /\ isAdmin = FALSE
  /\ isAuthOpen = FALSE
  /\ role = null
  /\ storage = "ok"
  /\ username = ""
  /\ password = ""
  /\ authError = ""

ModalClosed ==
  /\ selectedNote = NoSelectedNote
  /\ isModalOpen = FALSE
  /\ editing = FALSE
  /\ generatedNotesValue = ""

InitApp == ServerIdle /\ PageLoaded /\ LoggedOut /\ ModalClosed

\* The selectedSubject that handleFiltersChange reads.  The callback is
\* memoized with the dependencies [fetchNotes], and fetchNotes with []:
\* it stays the function of the first render, whose selectedSubject is the
\* initial state ''.
handleFiltersChange_selectedSubject == ""

\* fetchNotes up to its await: loading and error, and the call is out.
IssueFetch(calls_) ==
  /\ loading' = TRUE
  /\ error' = null
  /\ fetches' = fetches \o calls_

\* A click on a subject card: the subject page is rendered, FilterBar
\* mounts, and the effect fetches with {subject}.
SelectSubject(s) ==
  /\ selectedSubject = ""
  /\ Len(fetches) < MaxFetches
  /\ selectedSubject' = s
  /\ filterBar' = mountedFilters
  /\ IssueFetch(<< Fetch(SubjectFilter(s), 1, "effect", s) >>)
  /\ UNCHANGED << notes, pagination, appliedFilters >>
  /\ Render
  /\ UNCHANGED << backend, login >>

\* The Back button: its own fetchNotes({}, 1), then the effect's, since
\* selectedSubject changed.
Back ==
  /\ selectedSubject # ""
  /\ Len(fetches) + 2 <= MaxFetches
  /\ selectedSubject' = ""
  /\ appliedFilters' = EmptyObject
  /\ filterBar' = EmptyObject
  /\ IssueFetch(<< Fetch(EmptyObject, 1, "back", ""),
                   Fetch(EmptyObject, 1, "effect", "") >>)
  /\ UNCHANGED << notes, pagination >>
  /\ Render
  /\ UNCHANGED << backend, login >>

\* handleFiltersChange(filters).
handleFiltersChange(filters) ==
  /\ appliedFilters' =
       IF handleFiltersChange_selectedSubject # ""
       THEN Merge(filters, SubjectFilter(handleFiltersChange_selectedSubject))
       ELSE filters
  /\ IssueFetch(<< Fetch(appliedFilters', 1, "filter", selectedSubject) >>)
  /\ UNCHANGED << notes, pagination, selectedSubject >>
  /\ Render
  /\ UNCHANGED << backend, login >>

\* FilterBar: handleInputChange(field, value); the inputs are disabled
\* while loading.
FilterChange(field, value) ==
  /\ selectedSubject # ""
  /\ ~loading
  /\ Len(fetches) < MaxFetches
  /\ filterBar[field] # value
  /\ filterBar' = [filterBar EXCEPT ![field] = value]
  /\ handleFiltersChange(filterBar')

\* FilterBar: handleClearFilters; the button is there while a filter is set.
ClearFilters ==
  /\ selectedSubject # ""
  /\ ~loading
  /\ Len(fetches) < MaxFetches
  /\ hasActiveFilters
  /\ filterBar' = clearedFilters
  /\ handleFiltersChange(filterBar')

\* Pagination: a click on another page calls handlePageChange, which
\* fetches with the applied filters.
PageChange(pageNo) ==
  /\ NoteModalMounted
  /\ notes # << >>
  /\ pagination.totalPages > 1
  /\ pageNo \in 1..pagination.totalPages
  /\ pageNo # pagination.currentPage
  /\ Len(fetches) < MaxFetches
  /\ IssueFetch(<< Fetch(appliedFilters, pageNo, "page", selectedSubject) >>)
  /\ UNCHANGED << notes, pagination, appliedFilters, selectedSubject,
                  filterBar >>
  /\ Render
  /\ UNCHANGED << backend, login >>

\* The call i resumes with a success body.
SettleSuccess(i, listing) ==
  /\ i \in Pending
  /\ fetches' = [fetches EXCEPT ![i].state = "success",
                   ![i].response = successBody(fetches[i], listing)]
  /\ notes' = fetches'[i].response.notes
  /\ pagination' = fetches'[i].response.pagination
  /\ appliedFilters' = fetches'[i].response.appliedFilters
  /\ loading' = FALSE
  /\ UNCHANGED << error, selectedSubject, filterBar >>
  /\ Render
  /\ UNCHANGED << backend, login >>

\* The call i resumes in its catch block.
SettleFailure(i, message) ==
  /\ i \in Pending
  /\ fetches' = [fetches EXCEPT ![i].state = "failed"]
  /\ error' = message
  /\ notes' = << >>
  /\ pagination' = NoPagination
  /\ loading' = FALSE
  /\ UNCHANGED << appliedFilters, selectedSubject, filterBar >>
  /\ Render
  /\ UNCHANGED << backend, login >>

NextApp ==
  \/ \E s \in SubjectCards : SelectSubject(s)
  \/ Back
  \/ \E field \in DOMAIN FieldValues :
       \E value \in FieldValues[field] : FilterChange(field, value)
  \/ ClearFilters
  \/ \E pageNo \in PageNumbers : PageChange(pageNo)
  \/ \E i \in DOMAIN fetches :
       \E listing \in Listings : SettleSuccess(i, listing)
  \/ \E i \in DOMAIN fetches :
       \E message \in FetchErrors : SettleFailure(i, message)

SpecApp == InitApp /\ [][NextApp]_vars

\* The calls of fetchNotes that handleFiltersChange made while a subject
\* page was selected.
FilterFetchesOnSubjectPage ==
  {i \in DOMAIN fetches :
     fetches[i].origin = "filter" /\ fetches[i].selected # ""}

\* C21: while a subject page is selected, every filter change coming from
\* FilterBar results in a fetch whose filters carry subject = the selected
\* subject.
C21_FilterFetchKeepsSubject ==
  \A i \in FilterFetchesOnSubjectPage :
    Get(fetches[i].filters, "subject") = fetches[i].selected

\* The most recently issued call of fetchNotes.
LastIssued == fetches[Len(fetches)]

\* Every call of fetchNotes has settled.
AllSettled == Pending = {}

\* What the page displays is what the call `f` brought: its notes,
\* pagination and applied filters when it succeeded, else the error view.
Displays(f) ==
  IF f.state = "success"
  THEN /\ notes = f.response.notes
       /\ pagination = f.response.pagination
       /\ appliedFilters = f.response.appliedFilters
  ELSE /\ notes = << >>
       /\ pagination = NoPagination
       /\ error # null

\* C22: when several fetches overlap, once all of them have settled the
\* displayed notes, pagination and applied filters are those of the most
\* recently issued fetch, whatever the order in which the responses arrived.
C22_LastIssuedFetchWins == AllSettled => Displays(LastIssued)

\* In this step a call of fetchNotes settles as `state`.
Settles(state) ==
  \E i \in DOMAIN fetches :
    fetches[i].state = "pending" /\ fetches'[i].state = state

\* loading is true exactly while a call of fetchNotes is in flight.
LoadingWhileInFlight == loading <=> Pending # {}

\* After a failed fetch settles the error is set, the notes are empty and
\* pagination is null.
FailureShown ==
  Settles("failed") =>
    error' # null /\ notes' = << >> /\ pagination' = NoPagination

\* After a successful fetch settles the error is null.
SuccessClearsError == Settles("success") => error' = null

\* C23: loading is true whenever at least one fetch is in flight and false
\* once none is; after a failed fetch settles, error is set, notes is empty
\* and pagination is null; after a successful one, error is null.
C23_LoadingAndErrorFollowFetches ==
  [][LoadingWhileInFlight' /\ FailureShown /\ SuccessClearsError]_vars

(***************************************************************************)
(* Login, logout and the note modal: App's isAdmin and the stored role,    *)
(* AuthModal, NotesList's selected note and NoteModal's editing state.     *)
(* The page loads, one subject is opened and its fetches settle as in      *)
(* SpecApp; a reload starts the page again.                                *)
(***************************************************************************)

\* How localStorage behaves in this browser: it works, it refuses writes
\* (setItem throws), or every access to it throws.
Storages == {"ok", "full", "denied"}

getItemThrows(st) == st = "denied"

setItemThrows(st) == st \in {"full", "denied"}

removeItemThrows(st) == st = "denied"

\* What the user may type into AuthModal.
UserNames == {"admin"}

Passwords == {"admin123", "letmein"}

\* What the user may type into the textarea of NoteModal.
Drafts == {"Edited notes"}

\* The initializer of isAdmin: role === '1', false when getItem throws.
initialIsAdmin_Always(st, r) == TRUE

initialIsAdmin(st, r) == IF getItemThrows(st) THEN FALSE ELSE r = "1"

\* handleSubmit's test of the credentials.
validCredentials_AnyPassword(u, p) == u = "admin"

validCredentials(u, p) == u = "admin" /\ p = "admin123"

\* The stored role after try { localStorage.setItem('role', '1') }: the
\* exception is ignored.
roleAfterLogin(st, r) == IF setItemThrows(st) THEN r ELSE "1"

\* The buttons of NoteModal's footer.
footer_NoAdminTest(admin, edit) ==
  {"Close", "Delete"} \cup (IF edit THEN {"Save"} ELSE {"Edit"})

footer(admin, edit) ==
  {"Close"}
    \cup (IF admin /\ ~edit THEN {"Edit"} ELSE {})
    \cup (IF admin /\ edit THEN {"Save"} ELSE {})
    \cup (IF admin THEN {"Delete"} ELSE {})

\* NoteModal renders its dialog: it is mounted, open, and has a note.
NoteModalShown ==
  NoteModalMounted /\ isModalOpen /\ selectedNote # NoSelectedNote

Buttons == IF NoteModalShown THEN footer(isAdmin, editing) ELSE {}

\* The page when the browser loads it: what localStorage holds is left
\* from earlier visits, nothing where every access throws.
InitUI ==
  /\ ServerIdle
  /\ PageLoaded
  /\ ModalClosed
  /\ storage \in Storages
  /\ role \in IF getItemThrows(storage) THEN {null} ELSE {null, "1"}
  /\ isAdmin = initialIsAdmin(storage, role)
  /\ isAuthOpen = FALSE
  /\ username = ""
  /\ password = ""
  /\ authError = ""

\* The Login button, shown while not isAdmin.
OpenLogin ==
  /\ ~isAdmin
  /\ ~isAuthOpen
  /\ isAuthOpen' = TRUE
  /\ UNCHANGED << isAdmin, role, storage, username, password, authError >>
  /\ UNCHANGED << backend, page, modal >>

\* AuthModal's inputs.
TypeUsername(u) ==
  /\ isAuthOpen
  /\ username # u
  /\ username' = u
  /\ UNCHANGED << isAdmin, isAuthOpen, role, storage, password, authError >>
  /\ UNCHANGED << backend, page, modal >>

TypePassword(p) ==
  /\ isAuthOpen
  /\ password # p
  /\ password' = p
  /\ UNCHANGED << isAdmin, isAuthOpen, role, storage, username, authError >>
  /\ UNCHANGED << backend, page, modal >>

\* AuthModal: handleSubmit, with App's onLogin.
SubmitLogin ==
  /\ isAuthOpen
  /\ IF validCredentials(username, password)
     THEN /\ role' = roleAfterLogin(storage, role)
          /\ authError' = ""
          /\ isAdmin' = TRUE
          /\ isAuthOpen' = FALSE
     ELSE /\ authError' = "Invalid credentials"
          /\ UNCHANGED << role, isAdmin, isAuthOpen >>
  /\ UNCHANGED << storage, username, password >>
  /\ UNCHANGED << backend, page, modal >>

\* AuthModal: Cancel, or a click on its backdrop.
CloseLogin ==
  /\ isAuthOpen
  /\ isAuthOpen' = FALSE
  /\ UNCHANGED << isAdmin, role, storage, username, password, authError >>
  /\ UNCHANGED << backend, page, modal >>

\* The Logout button, shown while isAdmin; removeItem is not guarded, so
\* when it throws the handler ends before setIsAdmin(false).
Logout(confirmed) ==
  /\ isAdmin
  /\ IF confirmed /\ ~removeItemThrows(storage)
     THEN role' = null /\ isAdmin' = FALSE
     ELSE UNCHANGED << role, isAdmin >>
  /\ UNCHANGED << isAuthOpen, storage, username, password, authError >>
  /\ UNCHANGED << backend, page, modal >>

\* The browser loads the page again: every component starts from its
\* initial state, localStorage is kept.
Reload ==
  /\ notes' = << >>
  /\ pagination' = NoPagination
  /\ appliedFilters' = EmptyObject
  /\ loading' = TRUE
  /\ error' = null
  /\ selectedSubject' = ""
  /\ filterBar' = EmptyObject
  /\ fetches' = << Fetch(EmptyObject, 1, "effect", "") >>
  /\ isAdmin' = initialIsAdmin(storage, role)
  /\ isAuthOpen' = FALSE
  /\ username' = ""
  /\ password' = ""
  /\ authError' = ""
  /\ selectedNote' = NoSelectedNote
  /\ isModalOpen' = FALSE
  /\ editing' = FALSE
  /\ generatedNotesValue' = ""
  /\ UNCHANGED << role, storage >>
  /\ UNCHANGED backend

\* NotesList: handleNoteClick on a note of the list (the open dialog's
\* backdrop covers the list); the [note] effect of NoteModal sets the draft.
NoteClick(note) ==
  /\ NoteModalMounted
  /\ ~isModalOpen
  /\ \E i \in DOMAIN notes : notes[i] = note
  /\ selectedNote' = note
  /\ isModalOpen' = TRUE
  /\ generatedNotesValue' = note.generatedNotes
  /\ UNCHANGED editing
  /\ UNCHANGED << backend, page, login >>

\* NoteModal: the Edit button.
Edit ==
  /\ "Edit" \in Buttons
  /\ editing' = TRUE
  /\ UNCHANGED << selectedNote, isModalOpen, generatedNotesValue >>
  /\ UNCHANGED << backend, page, login >>

\* NoteModal: the textarea, there while editing.
TypeDraft(text) ==
  /\ NoteModalShown
  /\ editing
  /\ generatedNotesValue # text
  /\ generatedNotesValue' = text
  /\ UNCHANGED << selectedNote, isModalOpen, editing >>
  /\ UNCHANGED << backend, page, login >>

\* NotesList: handleCloseModal, then NoteModal's [note] effect.
handleCloseModal ==
  /\ isModalOpen' = FALSE
  /\ selectedNote' = NoSelectedNote
  /\ generatedNotesValue' = ""

\* NoteModal: the Close button of the footer.
CloseButton ==
  /\ "Close" \in Buttons
  /\ editing' = FALSE
  /\ handleCloseModal
  /\ UNCHANGED << backend, page, login >>

\* NoteModal: the X button, a click on the backdrop, or Escape: onClose.
Dismiss ==
  /\ NoteModalShown
  /\ handleCloseModal
  /\ UNCHANGED editing
  /\ UNCHANGED << backend, page, login >>

\* NoteModal: Save; the page reloads when updateNote succeeded, else the
\* error is logged.
Save(ok) ==
  /\ "Save" \in Buttons
  /\ IF ok THEN Reload ELSE UNCHANGED vars

\* NoteModal: Delete, after window.confirm.
Delete(confirmed, ok) ==
  /\ "Delete" \in Buttons
  /\ IF confirmed /\ ok THEN Reload ELSE UNCHANGED vars

NextUI ==
  \/ \E s \in SubjectCards : SelectSubject(s)
  \/ \E i \in DOMAIN fetches :
       \E listing \in Listings : SettleSuccess(i, listing)
  \/ \E i \in DOMAIN fetches :
       \E message \in FetchErrors : SettleFailure(i, message)
  \/ OpenLogin
  \/ \E u \in UserNames : TypeUsername(u)
  \/ \E p \in Passwords : TypePassword(p)
  \/ SubmitLogin
  \/ CloseLogin
  \/ \E confirmed \in BOOLEAN : Logout(confirmed)
  \/ Reload
  \/ \E note \in {note1, note2} : NoteClick(note)
  \/ Edit
  \/ \E text \in Drafts : TypeDraft(text)
  \/ CloseButton
  \/ Dismiss
  \/ \E ok \in BOOLEAN : Save(ok)
  \/ \E confirmed \in BOOLEAN : \E ok \in BOOLEAN : Delete(confirmed, ok)

SpecUI == InitUI /\ [][NextUI]_vars

\* isAdmin is true exactly when the stored role is '1'.
AdminIffStoredRole == isAdmin <=> role = "1"

\* The same as far as localStorage works: a role that can be read makes
\* isAdmin true, and an isAdmin whose login could be written has the role.
AdminFollowsReadableRole ==
  /\ ~getItemThrows(storage) => (role = "1" => isAdmin)
  /\ ~setItemThrows(storage) => (isAdmin => role = "1")

\* The credentials in AuthModal are admin / admin123.
AdminCredentials == username = "admin" /\ password = "admin123"

\* isAdmin becomes true only by a submit of admin / admin123.
OnlyValidSubmitSetsAdmin ==
  ~isAdmin /\ isAdmin' => isAuthOpen /\ AdminCredentials

\* A failed login leaves isAdmin and the stored role unchanged.
FailedLoginChangesNothing ==
  SubmitLogin /\ ~AdminCredentials => UNCHANGED << isAdmin, role >>

\* A confirmed logout clears isAdmin and the stored role.
LogoutClearsBoth == Logout(TRUE) => ~isAdmin' /\ role' = null

\* The Edit, Save and Delete controls of the note modal are rendered only
\* while isAdmin.
ControlsOnlyForAdmin ==
  Buttons \cap {"Edit", "Save", "Delete"} # {} => isAdmin

ModalOpens == ~isModalOpen /\ isModalOpen'

\* The modal is in view mode, and the draft is the note's generatedNotes.
ViewModeWithNoteDraft ==
  /\ editing = FALSE
  /\ generatedNotesValue = selectedNote.generatedNotes

\* C29: whenever the note modal is opened for a note it starts in view mode
\* (editing = false) with the draft equal to that note's generatedNotes,
\* however it was closed before (Close, X, backdrop, Escape) and whichever
\* note was open before.
C29_ModalOpensInViewMode == [][ModalOpens => ViewModeWithNoteDraft']_vars

====
